---- MODULE Spec2Model ----
(***************************************************************************)
(* The request-to-response pipeline of go-markdown-server (src/main.go):   *)
(* securityHeadersMiddleware, handleMarkdown, validatePath and isPathSafe, *)
(* over a small filesystem that holds the content root, and the startup   *)
(* seeding of main (ensureSampleContent).                                  *)
(*                                                                         *)
(* A Go string is modelled as a sequence of one-character strings, so that *)
(* strings.Contains / HasPrefix / HasSuffix and path/filepath work on the  *)
(* characters as the code does.                                            *)
(***************************************************************************)
EXTENDS Integers, Sequences, FiniteSets, TLC

VARIABLES server, fs, req, raced, boot

vars == <<server, fs, req, raced, boot>>

(***************************************************************************)
(* Bounds                                                                  *)
(***************************************************************************)
\* longest request path (after the leading slash) drawn from PathAlphabet
MaxLen == 2
\* longest validator input drawn from ValidatorAlphabet
MaxValLen == 2

(***************************************************************************)
(* Characters and string literals                                          *)
(***************************************************************************)
\* the rune value of a character (only the characters the model uses)
Ord(c) ==
  CASE c = "%" -> 37  [] c = "," -> 44  [] c = "-" -> 45  [] c = "." -> 46
    [] c = "/" -> 47  [] c = "0" -> 48  [] c = "9" -> 57  [] c = ":" -> 58
    [] c = "@" -> 64  [] c = "A" -> 65  [] c = "Z" -> 90  [] c = "[" -> 91
    [] c = "\\" -> 92 [] c = "^" -> 94  [] c = "_" -> 95  [] c = "a" -> 97
    [] c = "c" -> 99  [] c = "d" -> 100 [] c = "e" -> 101 [] c = "i" -> 105
    [] c = "l" -> 108 [] c = "m" -> 109 [] c = "n" -> 110 [] c = "o" -> 111
    [] c = "p" -> 112 [] c = "s" -> 115 [] c = "t" -> 116 [] c = "w" -> 119
    [] c = "x" -> 120 [] c = "y" -> 121 [] c = "z" -> 122 [] c = "{" -> 123

Separator == "/"

S_slash == <<"/">>
S_dot == <<".">>
S_dotdot == <<".", ".">>
S_slashslash == <<"/", "/">>
S_backslash == <<"\\">>
S_md == <<".", "m", "d">>
S_index_md == <<"i", "n", "d", "e", "x", ".", "m", "d">>
S_style_css == <<"s", "t", "y", "l", "e", ".", "c", "s", "s">>
S_content == <<"c", "o", "n", "t", "e", "n", "t">>
S_etc == <<"e", "t", "c">>
S_passwd == <<"p", "a", "s", "s", "w", "d">>
S_a == <<"a">>
S_a_md == <<"a", ".", "m", "d">>

(***************************************************************************)
(* package strings                                                         *)
(***************************************************************************)
HasPrefix(s, prefix) ==
  Len(prefix) <= Len(s) /\ SubSeq(s, 1, Len(prefix)) = prefix

HasSuffix(s, suffix) ==
  Len(suffix) <= Len(s) /\ SubSeq(s, Len(s) - Len(suffix) + 1, Len(s)) = suffix

Contains(s, substr) ==
  \E i \in 1..(Len(s) - Len(substr) + 1) :
     SubSeq(s, i, i + Len(substr) - 1) = substr

TrimPrefix(s, prefix) ==
  IF HasPrefix(s, prefix) THEN SubSeq(s, Len(prefix) + 1, Len(s)) ELSE s

(***************************************************************************)
(* package path/filepath (Unix)                                            *)
(***************************************************************************)
RECURSIVE SplitFrom(_, _, _)
\* the pieces of s[i..] between separators, cur being the piece in progress
SplitFrom(s, i, cur) ==
  IF i > Len(s) THEN <<cur>>
  ELSE IF s[i] = Separator THEN <<cur>> \o SplitFrom(s, i + 1, <<>>)
  ELSE SplitFrom(s, i + 1, Append(cur, s[i]))

Split(s) == SplitFrom(s, 1, <<>>)

RECURSIVE JoinElems(_)
\* the elements written with a separator between them
JoinElems(elems) ==
  IF elems = <<>> THEN <<>>
  ELSE IF Len(elems) = 1 THEN elems[1]
  ELSE elems[1] \o S_slash \o JoinElems(Tail(elems))

IsAbs(path) == HasPrefix(path, S_slash)

RECURSIVE CleanElems(_, _, _)
\* the pass of filepath.Clean over the elements: drops empty and dot elements,
\* and lets a dot-dot element remove the one before it (or vanish at the root)
CleanElems(elems, out, rooted) ==
  IF elems = <<>> THEN out
  ELSE LET e == Head(elems)
           rest == Tail(elems)
       IN  IF e = <<>> \/ e = S_dot THEN CleanElems(rest, out, rooted)
           ELSE IF e = S_dotdot
             THEN IF out # <<>> /\ out[Len(out)] # S_dotdot
                    THEN CleanElems(rest, SubSeq(out, 1, Len(out) - 1), rooted)
                  ELSE IF rooted THEN CleanElems(rest, out, rooted)
                  ELSE CleanElems(rest, Append(out, e), rooted)
           ELSE CleanElems(rest, Append(out, e), rooted)

\* the elements of a path after cleaning
Elements(path) == CleanElems(Split(path), <<>>, IsAbs(path))

Clean(path) ==
  IF path = <<>> THEN S_dot
  ELSE IF IsAbs(path) THEN S_slash \o JoinElems(Elements(path))
  ELSE IF Elements(path) = <<>> THEN S_dot
  ELSE JoinElems(Elements(path))

\* filepath.Join: the non-empty elements joined by separators, then cleaned
Join(elems) ==
  LET nonEmpty == SelectSeq(elems, LAMBDA e : e # <<>>)
  IN  IF nonEmpty = <<>> THEN <<>> ELSE Clean(JoinElems(nonEmpty))

\* the working directory of the process (the image sets none: the root)
Getwd == S_slash

\* filepath.Abs
Abs(path) == IF IsAbs(path) THEN Clean(path) ELSE Join(<<Getwd, path>>)

RECURSIVE CommonLen(_, _)
\* how many leading elements the two element lists share
CommonLen(b, t) ==
  IF b = <<>> \/ t = <<>> \/ Head(b) # Head(t) THEN 0
  ELSE 1 + CommonLen(Tail(b), Tail(t))

\* filepath.Rel: [err, rel]
Rel(basepath, targpath) ==
  LET base == Clean(basepath)
      targ == Clean(targpath)
      b == Elements(base)
      t == Elements(targ)
      k == CommonLen(b, t)
      bLeft == SubSeq(b, k + 1, Len(b))
      tLeft == SubSeq(t, k + 1, Len(t))
  IN  IF targ = base THEN [err |-> FALSE, rel |-> S_dot]
      ELSE IF IsAbs(base) # IsAbs(targ) THEN [err |-> TRUE, rel |-> <<>>]
      ELSE IF bLeft # <<>> /\ Head(bLeft) = S_dotdot THEN [err |-> TRUE, rel |-> <<>>]
      ELSE [err |-> FALSE,
            rel |-> JoinElems([i \in 1..Len(bLeft) |-> S_dotdot] \o tLeft)]

(***************************************************************************)
(* Server configuration                                                    *)
(***************************************************************************)
\* CONTENT_DIR of the container image
ContentDir == S_slash \o S_content

NewServer(contentDir, enableSecurityHeaders) ==
  [contentDir |-> contentDir, enableSecurityHeaders |-> enableSecurityHeaders]

(***************************************************************************)
(* validatePath and isPathSafe                                             *)
(***************************************************************************)
Nil == "nil"

\* AllowedChar with the upper end of the lower-case range left out
AllowedChar_exclusiveZ(char) ==
  \/ (Ord(char) >= Ord("a") /\ Ord(char) < Ord("z"))
  \/ (Ord(char) >= Ord("A") /\ Ord(char) <= Ord("Z"))
  \/ (Ord(char) >= Ord("0") /\ Ord(char) <= Ord("9"))
  \/ char = "-" \/ char = "_" \/ char = "." \/ char = "/"

\* the allow-list of validatePath: alphanumeric, dash, underscore, dot, slash
AllowedChar(char) ==
  \/ (Ord(char) >= Ord("a") /\ Ord(char) <= Ord("z"))
  \/ (Ord(char) >= Ord("A") /\ Ord(char) <= Ord("Z"))
  \/ (Ord(char) >= Ord("0") /\ Ord(char) <= Ord("9"))
  \/ char = "-" \/ char = "_" \/ char = "." \/ char = "/"

\* the error validatePath returns, Nil when the path is accepted
validatePath(path) ==
  IF \/ Contains(path, S_dotdot)
     \/ Contains(path, S_slashslash)
     \/ HasPrefix(path, S_slash)
     \/ Contains(path, S_backslash)
    THEN "invalid path: contains dangerous characters"
  ELSE IF \E i \in 1..Len(path) : ~AllowedChar(path[i])
    THEN "invalid path: contains invalid characters"
  ELSE Nil

\* isPathSafe: the path relative to the content directory does not start
\* with two dots. Both paths are made absolute and cleaned; symbolic links
\* are not resolved.
isPathSafe(s, requestedPath) ==
  LET contentAbs == Abs(s.contentDir)
      requestedAbs == Abs(requestedPath)
      r == Rel(contentAbs, requestedAbs)
  IN  IF r.err THEN FALSE ELSE ~HasPrefix(r.rel, S_dotdot)

(***************************************************************************)
(* The filesystem: every node of a fixed tree is absent, a regular file, a *)
(* directory or a symbolic link. A node is named by its elements from the  *)
(* filesystem root.                                                        *)
(***************************************************************************)
N_content == <<S_content>>
N_index == <<S_content, S_index_md>>
N_style == <<S_content, S_style_css>>
N_a_md == <<S_content, S_a_md>>
N_a == <<S_content, S_a>>
N_a_index == <<S_content, S_a, S_index_md>>
N_etc == <<S_etc>>
N_passwd == <<S_etc, S_passwd>>

Nodes == {N_content, N_index, N_style, N_a_md, N_a, N_a_index, N_etc, N_passwd}

\* where the symbolic link of the model points: a file outside the content root
LinkTarget(node) == N_passwd

\* the shapes the tree takes: the content root and /etc/passwd are always
\* there; under the content root index.md and style.css are files or absent,
\* a.md is a file, a link to /etc/passwd or absent, and a is a directory
\* (with or without its index.md), a file or absent
WellFormed(f) ==
  /\ f[N_content] = "dir" /\ f[N_etc] = "dir" /\ f[N_passwd] = "file"
  /\ f[N_index] \in {"absent", "file"}
  /\ f[N_style] \in {"absent", "file"}
  /\ f[N_a_md] \in {"absent", "file", "link"}
  /\ f[N_a] \in {"absent", "file", "dir"}
  /\ f[N_a_index] \in {"absent", "file"}
  /\ (f[N_a_index] # "absent" => f[N_a] = "dir")

FSStates == {f \in [Nodes -> {"absent", "file", "dir", "link"}] : WellFormed(f)}

Kind(f, node) ==
  IF node = <<>> THEN "dir"
  ELSE IF node \in Nodes THEN f[node]
  ELSE "absent"

RECURSIVE Walk(_, _, _)
\* the path walk of the kernel from directory cur over the elements left,
\* following symbolic links: [err, node]
Walk(f, cur, left) ==
  IF left = <<>> THEN [err |-> Nil, node |-> cur]
  ELSE IF Kind(f, cur) # "dir" THEN [err |-> "ENOTDIR", node |-> <<>>]
  ELSE LET n == Append(cur, Head(left))
       IN  IF Kind(f, n) = "absent" THEN [err |-> "ENOENT", node |-> <<>>]
           ELSE IF Kind(f, n) = "link"
             THEN Walk(f, <<>>, LinkTarget(n) \o Tail(left))
           ELSE Walk(f, n, Tail(left))

\* os.Stat: [err, node], node being the file the name leads to
Stat(f, name) == Walk(f, <<>>, Elements(name))

\* os.IsNotExist
IsNotExist(err) == err = "ENOENT"

\* the bytes of a regular file
Bytes(node) == <<"bytes", node>>

\* os.ReadFile: [err, data, node]
ReadFile(f, name) ==
  LET st == Stat(f, name)
  IN  IF st.err # Nil THEN [err |-> st.err, data |-> <<>>, node |-> <<>>]
      ELSE IF Kind(f, st.node) = "dir"
        THEN [err |-> "EISDIR", data |-> <<>>, node |-> st.node]
      ELSE [err |-> Nil, data |-> Bytes(st.node), node |-> st.node]

(***************************************************************************)
(* net/http: the response writer of a request                              *)
(***************************************************************************)
StatusOK == 200
StatusBadRequest == 400
StatusNotFound == 404
StatusInternalServerError == 500

NoHeader == [k \in {} |-> ""]

\* Header().Set
SetHeader(h, key, value) ==
  [k \in DOMAIN h \cup {key} |-> IF k = key THEN value ELSE h[k]]

\* http.Error: a plain-text body with the status code; ends the request
Error(r, error, code) ==
  [r EXCEPT !.pc = "responded",
            !.header = SetHeader(SetHeader(@, "Content-Type", "text/plain; charset=utf-8"),
                                 "X-Content-Type-Options", "nosniff"),
            !.status = code,
            !.body = <<"text", error>>]

\* http.NotFound
NotFound(r) == Error(r, "404 page not found", StatusNotFound)

\* http.ServeFile of a name that is no directory request: the bytes of the
\* file, with the Content-Type already set kept; an error of open becomes
\* 404 or 500
ServeFile(f, r, name) ==
  LET rd == ReadFile(f, name)
      r1 == [r EXCEPT !.ops = Append(@, <<"serve", name, rd.node, rd.err>>)]
  IN  IF rd.err = Nil
        THEN [r1 EXCEPT !.pc = "responded", !.status = StatusOK,
                        !.body = <<"file", rd.data>>]
      ELSE IF rd.err = "EISDIR"
        THEN [r1 EXCEPT !.pc = "responded", !.status = StatusOK,
                        !.header = SetHeader(@, "Content-Type", "text/html; charset=utf-8"),
                        !.body = <<"listing", rd.node>>]
      ELSE IF IsNotExist(rd.err) THEN NotFound(r1)
      ELSE Error(r1, "500 Internal Server Error", StatusInternalServerError)

(***************************************************************************)
(* The request context                                                     *)
(***************************************************************************)
NoRequest ==
  [pc |-> "idle", path |-> <<>>, urlPath |-> <<>>, filePath |-> <<>>,
   indexPath |-> <<>>, content |-> <<>>, htmlContent |-> <<>>,
   header |-> NoHeader, status |-> 0, body |-> <<>>, ops |-> <<>>,
   execErr |-> Nil]

NewRequest(path) == [NoRequest EXCEPT !.pc = "received", !.path = path]

(***************************************************************************)
(* securityHeadersMiddleware                                               *)
(***************************************************************************)
CSP ==
  "default-src 'self'; style-src 'self' 'unsafe-inline'; script-src 'self'; img-src 'self' data: https:; font-src 'self'; connect-src 'self'; frame-ancestors *; base-uri 'self'"

\* securityHeadersMiddleware that leaves the Content-Security-Policy out
securityHeadersMiddleware_noCSP(s, r) ==
  IF s.enableSecurityHeaders
    THEN [r EXCEPT !.pc = "headers-applied",
            !.header =
              SetHeader(SetHeader(SetHeader(SetHeader(@,
                "X-Content-Type-Options", "nosniff"),
                "X-XSS-Protection", "1; mode=block"),
                "Referrer-Policy", "strict-origin-when-cross-origin"),
                "X-Permitted-Cross-Domain-Policies", "none")]
  ELSE [r EXCEPT !.pc = "headers-applied"]

securityHeadersMiddleware(s, r) ==
  IF s.enableSecurityHeaders
    THEN [r EXCEPT !.pc = "headers-applied",
            !.header =
              SetHeader(SetHeader(SetHeader(SetHeader(SetHeader(@,
                "X-Content-Type-Options", "nosniff"),
                "X-XSS-Protection", "1; mode=block"),
                "Referrer-Policy", "strict-origin-when-cross-origin"),
                "X-Permitted-Cross-Domain-Policies", "none"),
                "Content-Security-Policy", CSP)]
  ELSE [r EXCEPT !.pc = "headers-applied"]

(***************************************************************************)
(* handleMarkdown, one operator for each stretch of the handler between    *)
(* two accesses to the filesystem                                          *)
(***************************************************************************)
\* handleMarkdown_validate with the return after http.Error left out
handleMarkdown_validate_noReturn(s, r) ==
  LET trimmed == TrimPrefix(r.path, S_slash)
      urlPath == IF trimmed = <<>> THEN S_index_md ELSE trimmed
  IN  [r EXCEPT !.pc = "path-validated", !.urlPath = urlPath]

\* lines 67-77: the URL path without its leading slash, index.md when empty,
\* then validatePath
handleMarkdown_validate(s, r) ==
  LET trimmed == TrimPrefix(r.path, S_slash)
      urlPath == IF trimmed = <<>> THEN S_index_md ELSE trimmed
  IN  IF validatePath(urlPath) # Nil
        THEN Error([r EXCEPT !.urlPath = urlPath], "Invalid path", StatusBadRequest)
      ELSE [r EXCEPT !.pc = "path-validated", !.urlPath = urlPath]

\* handleMarkdown_resolve that never appends the .md extension
handleMarkdown_resolve_noAppend(s, r) ==
  IF r.urlPath = S_style_css
    THEN LET cssPath == Join(<<s.contentDir, S_style_css>>)
         IN  IF ~isPathSafe(s, cssPath)
               THEN Error(r, "Invalid path", StatusBadRequest)
             ELSE [r EXCEPT !.pc = "css-stat", !.filePath = cssPath]
  ELSE LET filePath == Join(<<s.contentDir, r.urlPath>>)
       IN  IF ~isPathSafe(s, filePath)
             THEN Error(r, "Invalid path", StatusBadRequest)
           ELSE [r EXCEPT !.pc = "stat", !.filePath = filePath]

\* handleMarkdown_resolve without the branch for style.css
handleMarkdown_resolve_noCss(s, r) ==
  LET urlPath == IF ~HasSuffix(r.urlPath, S_md) /\ ~HasSuffix(r.urlPath, S_slash)
                   THEN r.urlPath \o S_md
                 ELSE r.urlPath
      filePath == Join(<<s.contentDir, urlPath>>)
  IN  IF ~isPathSafe(s, filePath)
        THEN Error([r EXCEPT !.urlPath = urlPath], "Invalid path", StatusBadRequest)
      ELSE [r EXCEPT !.pc = "stat", !.urlPath = urlPath, !.filePath = filePath]

\* lines 79-86 and 96-107: the candidate file of the URL path and its
\* containment check
handleMarkdown_resolve(s, r) ==
  IF r.urlPath = S_style_css
    THEN LET cssPath == Join(<<s.contentDir, S_style_css>>)
         IN  IF ~isPathSafe(s, cssPath)
               THEN Error(r, "Invalid path", StatusBadRequest)
             ELSE [r EXCEPT !.pc = "css-stat", !.filePath = cssPath]
  ELSE LET urlPath == IF ~HasSuffix(r.urlPath, S_md) /\ ~HasSuffix(r.urlPath, S_slash)
                        THEN r.urlPath \o S_md
                      ELSE r.urlPath
           filePath == Join(<<s.contentDir, urlPath>>)
       IN  IF ~isPathSafe(s, filePath)
             THEN Error([r EXCEPT !.urlPath = urlPath], "Invalid path", StatusBadRequest)
           ELSE [r EXCEPT !.pc = "stat", !.urlPath = urlPath, !.filePath = filePath]

\* lines 87-93: os.Stat of the stylesheet
handleMarkdown_cssStat(s, f, r) ==
  LET st == Stat(f, r.filePath)
      r1 == [r EXCEPT !.ops = Append(@, <<"stat", r.filePath, st.node, st.err>>)]
  IN  IF st.err = Nil THEN [r1 EXCEPT !.pc = "css-serve"]
      ELSE NotFound(r1)

\* lines 88-90: the stylesheet is served as text/css
handleMarkdown_cssServe(s, f, r) ==
  ServeFile(f, [r EXCEPT !.header = SetHeader(@, "Content-Type", "text/css")], r.filePath)

\* lines 109-125: os.Stat of the candidate; when it does not exist the
\* candidate becomes the index.md of the directory asked for, or the
\* index.md of the content root is looked at
handleMarkdown_stat(s, f, r) ==
  LET st == Stat(f, r.filePath)
      r1 == [r EXCEPT !.ops = Append(@, <<"stat", r.filePath, st.node, st.err>>)]
  IN  IF IsNotExist(st.err)
        THEN IF HasSuffix(r.urlPath, S_slash)
               THEN LET indexPath == Join(<<s.contentDir, r.urlPath, S_index_md>>)
                    IN  IF ~isPathSafe(s, indexPath)
                          THEN Error(r1, "Invalid path", StatusBadRequest)
                        ELSE [r1 EXCEPT !.pc = "path-resolved", !.filePath = indexPath]
             ELSE LET indexPath == Join(<<s.contentDir, S_index_md>>)
                  IN  IF ~isPathSafe(s, indexPath)
                        THEN Error(r1, "Invalid path", StatusBadRequest)
                      ELSE [r1 EXCEPT !.pc = "stat-index", !.indexPath = indexPath]
      ELSE [r1 EXCEPT !.pc = "path-resolved"]

\* handleMarkdown_statIndex with the return after http.NotFound left out
handleMarkdown_statIndex_noReturn(s, f, r) ==
  LET st == Stat(f, r.indexPath)
      r1 == [r EXCEPT !.ops = Append(@, <<"stat", r.indexPath, st.node, st.err>>)]
  IN  IF st.err = Nil THEN [r1 EXCEPT !.pc = "path-resolved", !.filePath = r.indexPath]
      ELSE [NotFound(r1) EXCEPT !.pc = "path-resolved"]

\* lines 126-131: os.Stat of the index.md of the content root
handleMarkdown_statIndex(s, f, r) ==
  LET st == Stat(f, r.indexPath)
      r1 == [r EXCEPT !.ops = Append(@, <<"stat", r.indexPath, st.node, st.err>>)]
  IN  IF st.err = Nil THEN [r1 EXCEPT !.pc = "path-resolved", !.filePath = r.indexPath]
      ELSE NotFound(r1)

\* handleMarkdown_read that answers a failed read as not found
handleMarkdown_read_notFound(s, f, r) ==
  LET rd == ReadFile(f, r.filePath)
      r1 == [r EXCEPT !.ops = Append(@, <<"read", r.filePath, rd.node, rd.err>>)]
  IN  IF rd.err # Nil THEN NotFound(r1)
      ELSE [r1 EXCEPT !.pc = "content-loaded", !.content = rd.data]

\* lines 135-140: os.ReadFile of the file chosen
handleMarkdown_read(s, f, r) ==
  LET rd == ReadFile(f, r.filePath)
      r1 == [r EXCEPT !.ops = Append(@, <<"read", r.filePath, rd.node, rd.err>>)]
  IN  IF rd.err # Nil
        THEN Error(r1, "Error reading file", StatusInternalServerError)
      ELSE [r1 EXCEPT !.pc = "content-loaded", !.content = rd.data]

\* the HTML fragment the markdown library renders from the bytes
markdownToHTML(md) == <<"html", md>>

\* lines 142-143
handleMarkdown_render(s, r) ==
  [r EXCEPT !.pc = "rendered", !.htmlContent = markdownToHTML(r.content)]

\* lines 145-178: the page template parsed and its data (title, content) built
handleMarkdown_compose(s, r) == [r EXCEPT !.pc = "composed"]

\* lines 180-184, t.Execute returning nil: the whole document is written
handleMarkdown_execute(s, r) ==
  [r EXCEPT !.pc = "responded",
            !.header = SetHeader(@, "Content-Type", "text/html"),
            !.status = StatusOK,
            !.body = <<"document", r.htmlContent>>]

\* the pieces t.Execute writes one after the other: the text before the
\* title, the title, the text up to the content, the content, the rest
TemplatePieces == 5

\* lines 180-184, t.Execute returning an error: a write to the response
\* failed after `written` pieces. The first write has already sent status
\* 200 with the headers, so the http.Error that follows changes neither; its
\* text follows the pieces written when the response still takes it
\* (appended) and is lost otherwise.
handleMarkdown_executeFails(s, r, written, appended) ==
  [r EXCEPT !.pc = "responded",
            !.header = SetHeader(@, "Content-Type", "text/html"),
            !.status = StatusOK,
            !.execErr = "write error",
            !.body = <<"partial", written,
                       IF appended THEN "Template execution error" ELSE "">>]

\* the next step of a request that is in flight
Step(s, f, r) ==
  CASE r.pc = "received" -> securityHeadersMiddleware(s, r)
    [] r.pc = "headers-applied" -> handleMarkdown_validate(s, r)
    [] r.pc = "path-validated" -> handleMarkdown_resolve(s, r)
    [] r.pc = "css-stat" -> handleMarkdown_cssStat(s, f, r)
    [] r.pc = "css-serve" -> handleMarkdown_cssServe(s, f, r)
    [] r.pc = "stat" -> handleMarkdown_stat(s, f, r)
    [] r.pc = "stat-index" -> handleMarkdown_statIndex(s, f, r)
    [] r.pc = "path-resolved" -> handleMarkdown_read(s, f, r)
    [] r.pc = "content-loaded" -> handleMarkdown_render(s, r)
    [] r.pc = "rendered" -> handleMarkdown_compose(s, r)
    [] r.pc = "composed" -> handleMarkdown_execute(s, r)

RECURSIVE Serve(_, _, _)
\* a request served to its response over a filesystem that stays as it is
\* and a connection that takes every write
Serve(s, f, r) == IF r.pc = "responded" THEN r ELSE Serve(s, f, Step(s, f, r))

\* what the client sees of a request
Response(r) == [status |-> r.status, header |-> r.header, body |-> r.body]

(***************************************************************************)
(* Requests                                                                *)
(***************************************************************************)
\* the strings over alphabet of length at most n
Strs(alphabet, n) == UNION {[1..k -> alphabet] : k \in 0..n}

PathAlphabet == {"a", ".", "/", "\\", "%"}

S_a_index_md == S_a \o S_slash \o S_index_md
S_a_index == S_a \o S_slash \o <<"i", "n", "d", "e", "x">>
S_a_a == S_a \o S_slash \o S_a
S_traversal == S_dotdot \o S_slash \o S_etc \o S_slash \o S_passwd

\* request paths by name, next to every short one
NamedPaths ==
  {S_style_css, S_index_md, S_a_md, S_a_index_md, S_a_index, S_a_a,
   S_a_md \o S_md, S_style_css \o S_md, S_traversal}

\* r.URL.Path of a request
RequestPaths == {S_slash \o p : p \in Strs(PathAlphabet, MaxLen) \cup NamedPaths}

(***************************************************************************)
(* The state machine                                                       *)
(***************************************************************************)
\* main has run to the point where the server listens
Booted == [pc |-> "serving", run |-> 1, before |-> <<>>, start |-> <<>>,
           err |-> Nil]

Init ==
  /\ server \in {NewServer(ContentDir, b) : b \in BOOLEAN}
  /\ fs \in FSStates
  /\ req = NoRequest
  /\ raced = FALSE
  /\ boot = Booted

\* Start: a request arrives at the handler registered for every path
Receive ==
  /\ req.pc = "idle"
  /\ \E path \in RequestPaths : req' = NewRequest(path)
  /\ raced' = FALSE
  /\ UNCHANGED <<server, boot, fs>>

Middleware ==
  /\ req.pc = "received"
  /\ req' = securityHeadersMiddleware(server, req)
  /\ UNCHANGED <<server, boot, fs, raced>>

Validate ==
  /\ req.pc = "headers-applied"
  /\ req' = handleMarkdown_validate(server, req)
  /\ UNCHANGED <<server, boot, fs, raced>>

Resolve ==
  /\ req.pc = "path-validated"
  /\ req' = handleMarkdown_resolve(server, req)
  /\ UNCHANGED <<server, boot, fs, raced>>

CssStat ==
  /\ req.pc = "css-stat"
  /\ req' = handleMarkdown_cssStat(server, fs, req)
  /\ UNCHANGED <<server, boot, fs, raced>>

CssServe ==
  /\ req.pc = "css-serve"
  /\ req' = handleMarkdown_cssServe(server, fs, req)
  /\ UNCHANGED <<server, boot, fs, raced>>

StatFile ==
  /\ req.pc = "stat"
  /\ req' = handleMarkdown_stat(server, fs, req)
  /\ UNCHANGED <<server, boot, fs, raced>>

StatIndex ==
  /\ req.pc = "stat-index"
  /\ req' = handleMarkdown_statIndex(server, fs, req)
  /\ UNCHANGED <<server, boot, fs, raced>>

Read ==
  /\ req.pc = "path-resolved"
  /\ req' = handleMarkdown_read(server, fs, req)
  /\ UNCHANGED <<server, boot, fs, raced>>

Render ==
  /\ req.pc = "content-loaded"
  /\ req' = handleMarkdown_render(server, req)
  /\ UNCHANGED <<server, boot, fs, raced>>

Compose ==
  /\ req.pc = "rendered"
  /\ req' = handleMarkdown_compose(server, req)
  /\ UNCHANGED <<server, boot, fs, raced>>

Execute ==
  /\ req.pc = "composed"
  /\ req' = handleMarkdown_execute(server, req)
  /\ UNCHANGED <<server, boot, fs, raced>>

\* a write of t.Execute fails after at least the first piece went out: the
\* client went away in the middle of the page
ExecuteFails ==
  /\ req.pc = "composed"
  /\ \E written \in 1..(TemplatePieces - 1), appended \in BOOLEAN :
        req' = handleMarkdown_executeFails(server, req, written, appended)
  /\ UNCHANGED <<server, boot, fs, raced>>

\* the response is on the wire and the request context is discarded
Done ==
  /\ req.pc = "responded"
  /\ req' = NoRequest
  /\ raced' = FALSE
  /\ UNCHANGED <<server, boot, fs>>

\* whoever owns the content changes one node of the tree, at any time;
\* raced records that it happened while a request was being handled
FsChange ==
  /\ \E n \in Nodes, k \in {"absent", "file", "dir", "link"} :
        /\ fs[n] # k
        /\ fs' = [fs EXCEPT ![n] = k]
        /\ WellFormed(fs')
  /\ raced' = (raced \/ req.pc # "idle")
  /\ UNCHANGED <<server, boot, req>>

Next ==
  \/ Receive \/ Middleware \/ Validate \/ Resolve \/ CssStat \/ CssServe
  \/ StatFile \/ StatIndex \/ Read \/ Render \/ Compose \/ Execute
  \/ ExecuteFails \/ Done \/ FsChange

Spec == Init /\ [][Next]_vars

\* a step of the goroutine that serves the request
HandlerStep ==
  \/ Middleware \/ Validate \/ Resolve \/ CssStat \/ CssServe
  \/ StatFile \/ StatIndex \/ Read \/ Render \/ Compose \/ Execute
  \/ ExecuteFails

\* a request is being served: its goroutine has a step to take
Serving == req.pc \notin {"idle", "responded"}

\* the runtime keeps running the goroutine of a request, and every call it
\* makes returns: weak fairness of HandlerStep, WF_vars(HandlerStep), written
\* out with Serving as the condition under which HandlerStep is enabled
FairSpec == Spec /\ ([]<>(~Serving) \/ []<><<HandlerStep>>_vars)

(***************************************************************************)
(* The validator on its own: inputs over an alphabet that holds the ends   *)
(* of every range of the allow-list and their neighbours                   *)
(***************************************************************************)
ValidatorAlphabet ==
  {"a", "z", "A", "Z", "0", "9", "-", "_", ".", "/", "\\",
   "%", ",", ":", "@", "[", "^", "{"}

ValidatorPaths == {S_slash \o p : p \in Strs(ValidatorAlphabet, MaxValLen)}

InitV ==
  /\ server = NewServer(ContentDir, TRUE)
  /\ fs = [n \in Nodes |-> IF n \in {N_content, N_etc} THEN "dir"
                           ELSE IF n = N_passwd THEN "file" ELSE "absent"]
  /\ req = NoRequest
  /\ raced = FALSE
  /\ boot = Booted

ReceiveV ==
  /\ req.pc = "idle"
  /\ \E path \in ValidatorPaths : req' = NewRequest(path)
  /\ UNCHANGED <<server, boot, fs, raced>>

DoneV ==
  /\ req.pc \in {"path-validated", "responded"}
  /\ req' = NoRequest
  /\ UNCHANGED <<server, boot, fs, raced>>

NextV == ReceiveV \/ Middleware \/ Validate \/ DoneV

SpecV == InitV /\ [][NextV]_vars

(***************************************************************************)
(* Startup: main creates the content directory and seeds it with sample    *)
(* content. A file written by the seeding has the kind sample, so that it  *)
(* differs from any file that was there before.                            *)
(***************************************************************************)
MaxRuns == 2

\* os.ReadDir: [err, entries], an entry being a node of the directory
ReadDir(f, name) ==
  LET st == Stat(f, name)
  IN  IF st.err # Nil THEN [err |-> st.err, entries |-> {}]
      ELSE IF Kind(f, st.node) # "dir" THEN [err |-> "ENOTDIR", entries |-> {}]
      ELSE [err |-> Nil,
            entries |-> {n \in Nodes : /\ Len(n) = Len(st.node) + 1
                                       /\ SubSeq(n, 1, Len(st.node)) = st.node
                                       /\ f[n] # "absent"}]

\* the name of a directory entry
Name(entry) == entry[Len(entry)]

\* os.WriteFile: [err, fs]; creates the file, or truncates and writes the
\* file the name leads to
WriteFile(f, name) ==
  LET elems == Elements(name)
      dir == Walk(f, <<>>, SubSeq(elems, 1, Len(elems) - 1))
      n == Append(dir.node, elems[Len(elems)])
      target == IF Kind(f, n) = "link" THEN LinkTarget(n) ELSE n
  IN  IF dir.err # Nil THEN [err |-> dir.err, fs |-> f]
      ELSE IF Kind(f, dir.node) # "dir" THEN [err |-> "ENOTDIR", fs |-> f]
      ELSE IF Kind(f, target) = "dir" THEN [err |-> "EISDIR", fs |-> f]
      ELSE [err |-> Nil, fs |-> [f EXCEPT ![target] = "sample"]]

\* os.MkdirAll of a directory whose parent exists: [err, fs]
MkdirAll(f, path) ==
  LET st == Stat(f, path)
  IN  IF st.err = Nil
        THEN IF Kind(f, st.node) = "dir" THEN [err |-> Nil, fs |-> f]
             ELSE [err |-> "ENOTDIR", fs |-> f]
      ELSE [err |-> Nil, fs |-> [f EXCEPT ![Elements(path)] = "dir"]]

\* isContentDirEmpty: [empty, err]; a directory that does not exist is
\* empty, and so is one without an entry that is not a directory and whose
\* name ends in .md
isContentDirEmpty(s, f) ==
  LET rd == ReadDir(f, s.contentDir)
  IN  IF rd.err # Nil
        THEN IF IsNotExist(rd.err) THEN [empty |-> TRUE, err |-> Nil]
             ELSE [empty |-> FALSE, err |-> rd.err]
      ELSE [empty |-> ~\E entry \in rd.entries :
                         f[entry] # "dir" /\ HasSuffix(Name(entry), S_md),
            err |-> Nil]

\* ensureIndexFile: [err, fs]
ensureIndexFile(s, f) ==
  LET e == isContentDirEmpty(s, f)
  IN  IF e.err # Nil THEN [err |-> e.err, fs |-> f]
      ELSE IF e.empty
        THEN LET indexPath == Join(<<s.contentDir, S_index_md>>)
                 w == WriteFile(f, indexPath)
             IN  IF w.err # Nil
                   THEN [err |-> "failed to create sample index.md", fs |-> w.fs]
                 ELSE [err |-> Nil, fs |-> w.fs]
      ELSE [err |-> Nil, fs |-> f]

\* ensureStyleFile without the os.Stat that guards the write
ensureStyleFile_always(s, f) ==
  LET cssPath == Join(<<s.contentDir, S_style_css>>)
      w == WriteFile(f, cssPath)
  IN  IF w.err # Nil
        THEN [err |-> "failed to create sample style.css", fs |-> w.fs]
      ELSE [err |-> Nil, fs |-> w.fs]

\* ensureStyleFile: [err, fs]
ensureStyleFile(s, f) ==
  LET cssPath == Join(<<s.contentDir, S_style_css>>)
  IN  IF IsNotExist(Stat(f, cssPath).err)
        THEN LET w == WriteFile(f, cssPath)
             IN  IF w.err # Nil
                   THEN [err |-> "failed to create sample style.css", fs |-> w.fs]
                 ELSE [err |-> Nil, fs |-> w.fs]
      ELSE [err |-> Nil, fs |-> f]

\* ensureSampleContent: [err, fs]; the style sheet is not looked at when the
\* index file failed
ensureSampleContent(s, f) ==
  LET i == ensureIndexFile(s, f)
  IN  IF i.err # Nil THEN i ELSE ensureStyleFile(s, i.fs)

\* the trees main may find: the content root absent, a file, or a directory
\* that holds any of index.md, style.css, a.md and a
SeedShape(f) ==
  /\ f[N_etc] = "dir" /\ f[N_passwd] = "file"
  /\ f[N_content] \in {"absent", "file", "dir"}
  /\ f[N_index] \in {"absent", "file", "dir"}
  /\ f[N_style] \in {"absent", "file", "dir"}
  /\ f[N_a_md] \in {"absent", "file", "link"}
  /\ f[N_a] \in {"absent", "file", "dir"}
  /\ f[N_a_index] \in {"absent", "file"}
  /\ (f[N_a_index] # "absent" => f[N_a] = "dir")
  /\ (f[N_content] # "dir" =>
        \A n \in {N_index, N_style, N_a_md, N_a} : f[n] = "absent")

SeedStates == {f \in [Nodes -> {"absent", "file", "dir", "link"}] : SeedShape(f)}

InitSeed ==
  /\ server = NewServer(ContentDir, TRUE)
  /\ fs \in SeedStates
  /\ req = NoRequest
  /\ raced = FALSE
  /\ boot = [pc |-> "main", run |-> 1, before |-> fs, start |-> fs, err |-> Nil]

\* main, lines 646-649: the content directory is created, or main ends
MainMkdirAll ==
  /\ boot.pc = "main"
  /\ LET m == MkdirAll(fs, server.contentDir)
     IN  /\ fs' = m.fs
         /\ boot' = [boot EXCEPT !.pc = IF m.err # Nil THEN "fatal" ELSE "seeding",
                                 !.err = m.err]
  /\ UNCHANGED <<server, req, raced>>

\* main, lines 653-657: the sample content is ensured; a failure is logged
\* and the server starts all the same
MainEnsureSampleContent ==
  /\ boot.pc = "seeding"
  /\ LET e == ensureSampleContent(server, fs)
     IN  /\ fs' = e.fs
         /\ boot' = [boot EXCEPT !.pc = "serving", !.err = e.err]
  /\ UNCHANGED <<server, req, raced>>

\* the process is started again on the tree the run before left
MainAgain ==
  /\ boot.pc \in {"serving", "fatal"}
  /\ boot.run < MaxRuns
  /\ boot' = [boot EXCEPT !.pc = "main", !.run = @ + 1, !.start = fs,
                          !.err = Nil]
  /\ UNCHANGED <<server, fs, req, raced>>

NextSeed == MainMkdirAll \/ MainEnsureSampleContent \/ MainAgain

SpecSeed == InitSeed /\ [][NextSeed]_vars

(***************************************************************************)
(* Vocabulary of the properties                                            *)
(***************************************************************************)
\* the request is past validation
Validated == req.pc \notin {"idle", "received", "headers-applied"}

\* the request has its response, the tree was the same all along and every
\* write of the response went through
Settled == req.pc = "responded" /\ ~raced /\ req.execErr = Nil

\* the request path without its one leading slash
Trimmed == TrimPrefix(req.path, S_slash)

\* the file a URL path names: with .md appended unless it ends in .md or /
Candidate(urlPath) ==
  Join(<<server.contentDir,
         IF HasSuffix(urlPath, S_md) \/ HasSuffix(urlPath, S_slash)
           THEN urlPath ELSE urlPath \o S_md>>)

RootIndex == Join(<<server.contentDir, S_index_md>>)
RootStyle == Join(<<server.contentDir, S_style_css>>)

\* the name leads to something / to a regular file
Exists(name) == Stat(fs, name).err = Nil
IsFile(name) == Exists(name) /\ Kind(fs, Stat(fs, name).node) = "file"

\* the node lies under the content root
InsideRoot(node) ==
  LET root == Elements(server.contentDir)
  IN  Len(node) >= Len(root) /\ SubSeq(node, 1, Len(root)) = root

\* the page made of the bytes of a file
PageOf(name) == <<"document", markdownToHTML(Bytes(Stat(fs, name).node))>>

(***************************************************************************)
(* C1: every path the handler hands to stat, read or serve lies, cleaned,  *)
(* inside the content root, and the file a read or serve reaches lies      *)
(* inside the content root too: no request reads a file outside it.        *)
(***************************************************************************)
C1_AccessStaysInsideRoot ==
  \A i \in 1..Len(req.ops) :
     /\ InsideRoot(Elements(req.ops[i][2]))
     /\ (req.ops[i][1] \in {"read", "serve"} /\ req.ops[i][3] # <<>>)
          => InsideRoot(req.ops[i][3])

(***************************************************************************)
(* C2: a candidate that, with symbolic links resolved, lies outside the    *)
(* content root is answered 400 and is not read.                           *)
(***************************************************************************)
C2_ResolvedOutsideIsRejected ==
  \A i \in 1..Len(req.ops) :
     (req.ops[i][3] # <<>> /\ ~InsideRoot(req.ops[i][3]))
       => /\ req.ops[i][1] = "stat"
          /\ (req.pc = "responded" => req.status = StatusBadRequest)

(***************************************************************************)
(* C3: validatePath rejects a path exactly when it holds two dots in a     *)
(* row, two slashes in a row, a leading slash, a backslash, or a character *)
(* that is no letter, digit, dash, underscore, dot or slash.               *)
(***************************************************************************)
C3_Letters == {"a", "c", "d", "e", "i", "l", "m", "n", "o", "p", "s", "t",
               "w", "x", "y", "z", "A", "Z"}
C3_Digits == {"0", "9"}
C3_Allowed == C3_Letters \cup C3_Digits \cup {"-", "_", ".", "/"}

C3_MustReject(p) ==
  \/ \E i \in 1..(Len(p) - 1) : p[i] = "." /\ p[i + 1] = "."
  \/ \E i \in 1..(Len(p) - 1) : p[i] = "/" /\ p[i + 1] = "/"
  \/ (Len(p) >= 1 /\ p[1] = "/")
  \/ \E i \in 1..Len(p) : p[i] = "\\"
  \/ \E i \in 1..Len(p) : p[i] \notin C3_Allowed

C3_RejectsExactlyTheListed ==
  /\ (req.pc = "path-validated" => ~C3_MustReject(req.urlPath))
  /\ (req.pc = "responded" => C3_MustReject(req.urlPath))

C3_Witness ==
  /\ req.pc = "path-validated"
  /\ req.urlPath = <<"z", "_">>

(***************************************************************************)
(* C4: a request path the validator rejects is answered 400 with the body  *)
(* Invalid path, and the handler touches no file for it.                   *)
(***************************************************************************)
C4_RejectedIs400WithoutAccess ==
  (Validated /\ validatePath(Trimmed) # Nil)
    => /\ req.pc = "responded"
       /\ req.status = StatusBadRequest
       /\ req.body = <<"text", "Invalid path">>
       /\ req.ops = <<>>

C4_Witness ==
  /\ req.pc = "responded"
  /\ req.path = S_slash \o S_traversal
  /\ req.status = StatusBadRequest

(***************************************************************************)
(* C5: a valid directory request, one ending in a slash and naming a       *)
(* directory under the content root, whose index.md exists is answered 200 *)
(* with the page of that index.md.                                         *)
(***************************************************************************)
C5_DirectoryIndexServed ==
  (/\ Settled
   /\ Elements(Trimmed) # <<>>
   /\ validatePath(Trimmed) = Nil
   /\ HasSuffix(Trimmed, S_slash)
   /\ IsFile(Join(<<server.contentDir, Trimmed, S_index_md>>)))
    => /\ req.status = StatusOK
       /\ req.body = PageOf(Join(<<server.contentDir, Trimmed, S_index_md>>))

(***************************************************************************)
(* C6: a valid request none of whose candidates exists (the file it names  *)
(* and its fallback: the index.md of the directory asked for, else the     *)
(* index.md of the content root) is answered 404. Stated for the requests  *)
(* whose candidate passes the containment check.                           *)
(***************************************************************************)
C6_Fallback(urlPath) ==
  IF HasSuffix(urlPath, S_slash)
    THEN Join(<<server.contentDir, urlPath, S_index_md>>)
  ELSE RootIndex

C6_NoCandidateIs404 ==
  (/\ Settled
   /\ Trimmed # <<>>
   /\ validatePath(Trimmed) = Nil
   /\ Trimmed # S_style_css
   /\ isPathSafe(server, Candidate(Trimmed))
   /\ IsNotExist(Stat(fs, Candidate(Trimmed)).err)
   /\ IsNotExist(Stat(fs, C6_Fallback(Trimmed)).err))
    => req.status = StatusNotFound

(***************************************************************************)
(* C7: a valid request that ends in no slash and is not style.css, whose   *)
(* file does not exist while the index.md of the content root does, is     *)
(* answered 200 with the page of that index.md. Stated for the requests    *)
(* whose candidate passes the containment check.                           *)
(***************************************************************************)
C7_MissingFallsBackToRootIndex ==
  (/\ Settled
   /\ Trimmed # <<>>
   /\ validatePath(Trimmed) = Nil
   /\ ~HasSuffix(Trimmed, S_slash)
   /\ Trimmed # S_style_css
   /\ isPathSafe(server, Candidate(Trimmed))
   /\ ~Exists(Candidate(Trimmed))
   /\ IsFile(RootIndex))
    => /\ req.status = StatusOK
       /\ req.body = PageOf(RootIndex)

(***************************************************************************)
(* C8: clean URLs. As stated: for every name the validator accepts, the    *)
(* request for the name and the request for the name with .md appended     *)
(* choose the same file and get the same response over the same tree; and  *)
(* the request for / does as the request for /index.md.                    *)
(***************************************************************************)
\* the request for the path with .md appended, served over the same tree
C8_Twin(name) == Serve(server, fs, NewRequest(S_slash \o name \o S_md))

C8_SameAs(twin) ==
  /\ Response(req) = Response(twin)
  /\ req.filePath = twin.filePath

C8_RootAsIndex ==
  (Settled /\ req.path = S_slash)
    => C8_SameAs(Serve(server, fs, NewRequest(S_slash \o S_index_md)))

C8_Original ==
  /\ (Settled /\ Trimmed # <<>> /\ validatePath(Trimmed) = Nil)
       => C8_SameAs(C8_Twin(Trimmed))
  /\ C8_RootAsIndex

\* the names clean URLs are about: accepted by the validator, with no .md
\* at the end yet, no dot or slash at the end, and not the stylesheet
C8_CleanName(name) ==
  /\ name # <<>>
  /\ validatePath(name) = Nil
  /\ ~HasSuffix(name, S_md)
  /\ ~HasSuffix(name, S_dot)
  /\ ~HasSuffix(name, S_slash)
  /\ name # S_style_css

\* C8 as amended: the same, for the names of C8_CleanName
C8_CleanUrls ==
  /\ (Settled /\ C8_CleanName(Trimmed)) => C8_SameAs(C8_Twin(Trimmed))
  /\ C8_RootAsIndex

C8_Witness ==
  /\ Settled
  /\ req.path = S_slash \o S_a
  /\ req.status = StatusOK
  /\ req.filePath = Join(<<server.contentDir, S_a_md>>)
  /\ req.body = PageOf(Join(<<server.contentDir, S_a_md>>))

(***************************************************************************)
(* C9: only .md files and the style.css of the content root are served:    *)
(* the file behind a 200 has a name ending in .md or is that style.css.    *)
(***************************************************************************)
C9_OnlyMdAndCssServed ==
  (req.pc = "responded" /\ req.status = StatusOK)
    => \/ HasSuffix(req.filePath, S_md)
       \/ req.filePath = RootStyle

(***************************************************************************)
(* C10: the request for exactly style.css is served from the style.css of  *)
(* the content root as text/css when that file exists and is answered 404  *)
(* when it does not; it never falls back to index.md and is never rendered *)
(* as markdown.                                                            *)
(***************************************************************************)
C10_StylesheetPassthrough ==
  (Validated /\ Trimmed = S_style_css)
    => /\ \A i \in 1..Len(req.ops) : req.ops[i][2] = RootStyle
       /\ req.content = <<>>
       /\ (req.body # <<>> => req.body[1] # "document")
       /\ (Settled /\ IsFile(RootStyle))
            => /\ req.status = StatusOK
               /\ req.header["Content-Type"] = "text/css"
               /\ req.body = <<"file", Bytes(N_style)>>
       /\ (Settled /\ ~Exists(RootStyle)) => req.status = StatusNotFound

C10_Witness ==
  /\ Settled
  /\ req.path = S_slash \o S_style_css
  /\ req.status = StatusOK
  /\ req.body = <<"file", Bytes(N_style)>>

(***************************************************************************)
(* C11: the security-header middleware changes nothing but headers. With   *)
(* the toggle on, the five headers are set, with their values, before the  *)
(* handler runs and stay on every response; with the toggle off a 200      *)
(* response carries none of the five; the middleware rejects no request,   *)
(* and status and body are the same with the toggle on and off.            *)
(***************************************************************************)
C11_Five ==
  [h \in {"X-Content-Type-Options", "X-XSS-Protection", "Referrer-Policy",
          "X-Permitted-Cross-Domain-Policies", "Content-Security-Policy"} |->
     CASE h = "X-Content-Type-Options" -> "nosniff"
       [] h = "X-XSS-Protection" -> "1; mode=block"
       [] h = "Referrer-Policy" -> "strict-origin-when-cross-origin"
       [] h = "X-Permitted-Cross-Domain-Policies" -> "none"
       [] h = "Content-Security-Policy" ->
            "default-src 'self'; style-src 'self' 'unsafe-inline'; script-src 'self'; img-src 'self' data: https:; font-src 'self'; connect-src 'self'; frame-ancestors *; base-uri 'self'"]

\* the same request served with the toggle the other way
C11_Twin ==
  Serve(NewServer(server.contentDir, ~server.enableSecurityHeaders), fs,
        NewRequest(req.path))

C11_HeadersOnly ==
  /\ (req.pc \notin {"idle", "received"} /\ server.enableSecurityHeaders)
       => \A h \in DOMAIN C11_Five :
             h \in DOMAIN req.header /\ req.header[h] = C11_Five[h]
  /\ (req.pc = "responded" /\ ~server.enableSecurityHeaders
        /\ req.status = StatusOK)
       => \A h \in DOMAIN C11_Five : h \notin DOMAIN req.header
  /\ req.pc = "headers-applied"
       => [req EXCEPT !.header = NoHeader] =
            [NewRequest(req.path) EXCEPT !.pc = "headers-applied"]
  /\ Settled
       => (C11_Twin.status = req.status /\ C11_Twin.body = req.body)

C11_Witness ==
  /\ Settled
  /\ server.enableSecurityHeaders
  /\ req.status = StatusOK
  /\ req.header["Content-Security-Policy"] = C11_Five["Content-Security-Policy"]
  /\ req.header["Content-Type"] = "text/html"

(***************************************************************************)
(* C12: when the existence check of the chosen file succeeds and the read  *)
(* that follows fails, also because the file was removed or changed in     *)
(* between, the request is answered 500 with the body Error reading file.  *)
(* As stated, for every file the handler checks and then reads or serves.  *)
(***************************************************************************)
\* access i found the file and access i + 1, of kind op, of the same name failed
C12_CheckedThenFailed(i, op) ==
  /\ i + 1 <= Len(req.ops)
  /\ req.ops[i][1] = "stat" /\ req.ops[i][4] = Nil
  /\ req.ops[i + 1][1] = op
  /\ req.ops[i + 1][2] = req.ops[i][2]
  /\ req.ops[i + 1][4] # Nil

C12_ReadError ==
  /\ req.pc = "responded"
  /\ req.status = StatusInternalServerError
  /\ req.body = <<"text", "Error reading file">>

C12_Original ==
  (\E i \in 1..Len(req.ops) : \E op \in {"read", "serve"} :
      C12_CheckedThenFailed(i, op))
    => C12_ReadError

\* C12 as amended: the same, for the markdown file read with os.ReadFile
C12_ReadFailureIs500 ==
  (\E i \in 1..Len(req.ops) : C12_CheckedThenFailed(i, "read"))
    => C12_ReadError

\* the file was there for os.Stat and gone for os.ReadFile
C12_Witness ==
  /\ raced
  /\ \E i \in 1..Len(req.ops) :
        C12_CheckedThenFailed(i, "read") /\ req.ops[i + 1][4] = "ENOENT"
  /\ C12_ReadError

(***************************************************************************)
(* C13: no partial responses. The body of every response is one complete   *)
(* error text, the complete document or the complete stylesheet; a failure *)
(* while the document is written leaves no part of it in the response and  *)
(* puts no error text after a response that has started as 200.            *)
(***************************************************************************)
C13_NoPartialResponse ==
  req.pc = "responded"
    => /\ req.body # <<>>
       /\ req.body[1] \in {"text", "document", "file", "listing"}
       /\ (req.execErr # Nil => req.status = StatusInternalServerError)

(***************************************************************************)
(* C14: a request moves through received, headers-applied, path-validated, *)
(* path-resolved, content-loaded, rendered, composed, responded in that    *)
(* order and never back; a validation, containment or not-found failure    *)
(* answers at once with its error status, and no file is read, rendered or *)
(* composed for it; every request reaches responded, with one status among *)
(* 200, 400, 404 and 500.                                                  *)
(***************************************************************************)
\* the place of a step in the pipeline; the lookups that lead to the
\* resolved path lie between path-validated and path-resolved
C14_Stage ==
  [pc \in {"idle", "received", "headers-applied", "path-validated", "stat",
           "css-stat", "stat-index", "css-serve", "path-resolved",
           "content-loaded", "rendered", "composed", "responded"} |->
     CASE pc = "idle" -> 0
       [] pc = "received" -> 1
       [] pc = "headers-applied" -> 2
       [] pc = "path-validated" -> 3
       [] pc \in {"stat", "css-stat"} -> 4
       [] pc \in {"stat-index", "css-serve"} -> 5
       [] pc = "path-resolved" -> 6
       [] pc = "content-loaded" -> 7
       [] pc = "rendered" -> 8
       [] pc = "composed" -> 9
       [] pc = "responded" -> 10]

\* a step of a request moves it forward; the only way back is a new request
C14_Forward ==
  req' # req
    => \/ C14_Stage[req'.pc] > C14_Stage[req.pc]
       \/ (req.pc = "responded" /\ req' = NoRequest)

\* the stages a request has been through show in what it holds
C14_StagesInOrder ==
  /\ req.content # <<>> => \E i \in 1..Len(req.ops) :
                                req.ops[i][1] = "read" /\ req.ops[i][4] = Nil
  /\ (req.content # <<>>) = (C14_Stage[req.pc] >= 7 /\ req.status \in {0, StatusOK}
                              /\ req.urlPath # S_style_css)
  /\ (req.htmlContent # <<>>) => req.content # <<>>

C14_FailsAtOnce ==
  /\ req.status # 0 => req.pc = "responded"
  /\ req.status \in {StatusBadRequest, StatusNotFound}
       => /\ req.content = <<>>
          /\ req.htmlContent = <<>>
          /\ \A i \in 1..Len(req.ops) :
                /\ req.ops[i][1] # "read"
                /\ (req.ops[i][1] = "serve" => req.ops[i][4] # Nil)
  /\ req.status = StatusBadRequest => req.ops = <<>>

C14_OneStatus ==
  req.pc = "responded"
    => req.status \in {StatusOK, StatusBadRequest, StatusNotFound,
                       StatusInternalServerError}

\* while a request is being served, the next step of its handler is defined
\* and moves it forward
C14_NeverStuck ==
  Serving => C14_Stage[Step(server, fs, req).pc] > C14_Stage[req.pc]

C15_TopLevelMd(f) ==
  {n \in Nodes : /\ Len(n) = 2 /\ n[1] = S_content
                 /\ f[n] = "file" /\ HasSuffix(n[2], S_md)}

C15_IndexOnlyWhenNoMd ==
  fs[N_index] = "sample" => C15_TopLevelMd(boot.before) = {}

C15_StyleOnlyWhenAbsent ==
  fs[N_style] = "sample" => boot.before[N_style] = "absent"

\* nothing but index.md and style.css is ever written, and whatever was
\* there before is as it was
C15_Preserved ==
  /\ \A n \in Nodes : boot.before[n] # "absent" => fs[n] = boot.before[n]
  /\ \A n \in Nodes : fs[n] = "sample" => n \in {N_index, N_style}

C15_SecondRunChangesNothing ==
  boot.run >= 2 => fs = boot.start

C15_SeedingIdempotent ==
  /\ C15_IndexOnlyWhenNoMd
  /\ C15_StyleOnlyWhenAbsent
  /\ C15_Preserved
  /\ C15_SecondRunChangesNothing

\* the second run is over, on a tree where the first run wrote both files
\* next to a file of the user
C15_Witness ==
  /\ boot.run = 2
  /\ boot.pc = "serving"
  /\ fs[N_index] = "sample"
  /\ fs[N_style] = "sample"
  /\ boot.before[N_a] = "file"
  /\ fs[N_a] = "file"

(***************************************************************************)
(* C16: the containment re-check has no false positives. For every path    *)
(* that validatePath accepts, every candidate the handler builds from it   *)
(* passes isPathSafe, so a request with an accepted path is never answered *)
(* 400.                                                                    *)
(***************************************************************************)
C16_AcceptedIsNever400 ==
  (req.pc # "idle" /\ validatePath(Trimmed) = Nil)
    => req.status # StatusBadRequest

====
